---- MODULE Spec2Model ----
(***************************************************************************)
(* TaskManager (card view / task switcher) of the system app, modelled as  *)
(* a state machine.  Every event handler and every asynchronous            *)
(* continuation (promise callback, timer, eventSafety callback) is one     *)
(* action; handlers run to completion, so an action is atomic.             *)
(***************************************************************************)
EXTENDS Integers, Sequences, FiniteSets, Bags, TLC

\* ---- bounds of the model -------------------------------------------------
NumApps == 2
MaxPending == 1
MaxTime == 1
MaxCards == 3

\* ---- program constants ---------------------------------------------------
CARD_GUTTER == 25
\* setTimeout(resolve, 200) of panToApp
PAN_SETTLE_DELAY == 200

\* ---- window handles ------------------------------------------------------
Home == 0
NoWin == 0 - 1
\* this._lastScrollTimestamp before the first 'scroll' (undefined)
NoTime == 0 - 1
\* the values Date.now() gives
Clock == 1 .. MaxTime
Windows == 1 .. NumApps
ViewportWidths == {320}
\* the viewports and running windows the layout is computed for
LayoutWidths == {40, 320, 480}
LayoutStacks == {[i \in 1 .. k |-> i] : k \in 0 .. MaxCards}

IsHomescreen(w) == w = Home
IsBrowser(w) == w % 2 = 1

\* ---- Card objects: identity is the id; element of a card is its id -------
NullCard == [app |-> NoWin, id |-> 0, noShots |-> FALSE]
UndefCard == [app |-> NoWin, id |-> 0 - 1, noShots |-> FALSE]
Card(app, disableScreenshots, id) ==
  [app |-> app, id |-> id, noShots |-> disableScreenshots]

\* ---- helpers -------------------------------------------------------------
Min(a, b) == IF a < b THEN a ELSE b
Max(a, b) == IF a > b THEN a ELSE b
Range(s) == {s[i] : i \in 1 .. Len(s)}
\* Array.prototype.indexOf, 0-based, -1 when absent
IndexOf(s, x) ==
  IF \E i \in 1 .. Len(s) : s[i] = x
  THEN (CHOOSE i \in 1 .. Len(s) : s[i] = x /\ \A j \in 1 .. i - 1 : s[j] # x) - 1
  ELSE 0 - 1
Without(s, x) == SelectSeq(s, LAMBDA y : y # x)
Restrict(f, D) == [x \in D |-> f[x]]
MapSet(f, k, v) == [x \in DOMAIN f \cup {k} |-> IF x = k THEN v ELSE f[x]]
Toggle(cls, name, force) == IF force THEN cls \cup {name} ELSE cls \ {name}

\* one observable call made by a handler: op(a, b) with string argument t
Call(op, a, b, t) == [op |-> op, a |-> a, b |-> b, t |-> t]
\* one suspended continuation: kind k, the window a its closure reads, and
\* what runs when it resumes
Cont(k, a, then) == [k |-> k, a |-> a, then |-> then]

VARIABLES
  smStack,            \* StackManager's stack (the provider's order)
  stack,              \* this.stack
  appToCardMap,       \* this.appToCardMap   AppWindow -> Card
  elementToCardMap,   \* this.elementToCardMap  element -> Card
  currentCard,        \* this.currentCard
  active,             \* this._active
  isTransitioning,    \* this._isTransitioning
  browserOnly,        \* this._browserOnly
  disableScreenshots, \* this.disableScreenshots
  listening,          \* the ten input listeners of show()/hide() are attached
  classes,            \* this.element.classList
  cardsView,          \* this.screenElement.classList has 'cards-view'
  innerWidth,         \* window.innerWidth
  cardWidth,          \* this.cardWidth
  cardsListWidth,     \* this.cardsList.style.width
  cardX,              \* card id -> translate x
  aria,               \* card id -> accessibility attributes
  scrollLeft,         \* this.scrollElement.scrollLeft
  overflowX,          \* this.scrollElement.style.overflowX
  lastScrollTimestamp, \* this._lastScrollTimestamp
  dragging,           \* element of the card under the finger since an accepted drag
  pending,            \* bag of suspended continuations
  calls               \* the calls made by the handler that ran last

vars == <<smStack, stack, appToCardMap, elementToCardMap, currentCard, active,
          isTransitioning, browserOnly, disableScreenshots, listening, classes,
          cardsView, innerWidth, cardWidth, cardsListWidth, cardX, aria,
          scrollLeft, overflowX, lastScrollTimestamp, dragging, pending,
          calls>>

\* the state as one record, so that a handler is a composition of functions
State ==
  [smStack |-> smStack, stack |-> stack, appToCardMap |-> appToCardMap,
   elementToCardMap |-> elementToCardMap, currentCard |-> currentCard,
   active |-> active, isTransitioning |-> isTransitioning,
   browserOnly |-> browserOnly, disableScreenshots |-> disableScreenshots,
   listening |-> listening, classes |-> classes, cardsView |-> cardsView,
   innerWidth |-> innerWidth, cardWidth |-> cardWidth,
   cardsListWidth |-> cardsListWidth, cardX |-> cardX, aria |-> aria,
   scrollLeft |-> scrollLeft, overflowX |-> overflowX,
   lastScrollTimestamp |-> lastScrollTimestamp, dragging |-> dragging,
   pending |-> pending,
   calls |-> <<>>]

Commit(s) ==
  /\ smStack' = s.smStack
  /\ stack' = s.stack
  /\ appToCardMap' = s.appToCardMap
  /\ elementToCardMap' = s.elementToCardMap
  /\ currentCard' = s.currentCard
  /\ active' = s.active
  /\ isTransitioning' = s.isTransitioning
  /\ browserOnly' = s.browserOnly
  /\ disableScreenshots' = s.disableScreenshots
  /\ listening' = s.listening
  /\ classes' = s.classes
  /\ cardsView' = s.cardsView
  /\ innerWidth' = s.innerWidth
  /\ cardWidth' = s.cardWidth
  /\ cardsListWidth' = s.cardsListWidth
  /\ cardX' = s.cardX
  /\ aria' = s.aria
  /\ scrollLeft' = s.scrollLeft
  /\ overflowX' = s.overflowX
  /\ lastScrollTimestamp' = s.lastScrollTimestamp
  /\ dragging' = s.dragging
  /\ pending' = s.pending
  /\ calls' = s.calls

Log(s, c) == [s EXCEPT !.calls = Append(@, c)]
Suspend(s, c) == [s EXCEPT !.pending = @ (+) SetToBag({c})]
Resume(s, c) == [s EXCEPT !.pending = @ (-) SetToBag({c})]
\* an uncaught TypeError: the handler stops where it is
Throw(s, where) == Log(s, Call("TypeError", 0, 0, where))
Threw(s) == Len(s.calls) > 0 /\ s.calls[Len(s.calls)].op = "TypeError"

\* ---- TaskManager methods -------------------------------------------------
publish(s, type, pos) == Log(s, Call("publish", pos, 0, type))

\* mutant: the 'empty' marker is never set
setActiveNoEmpty(s, act) ==
  IF s.active = act
  THEN Log(s, Call("setActive:return", 0, 0, ""))
  ELSE LET s1 == [s EXCEPT !.isTransitioning = FALSE, !.active = act]
           s2 == publish(s1, IF act THEN "taskmanager-activated"
                                    ELSE "taskmanager-deactivated", 0 - 1)
       IN [s2 EXCEPT !.classes = Toggle(@, "active", act) \ {"empty"}]

setActive(s, act) ==
  IF s.active = act
  THEN Log(s, Call("setActive:return", 0, 0, ""))
  ELSE LET s1 == [s EXCEPT !.isTransitioning = FALSE, !.active = act]
           s2 == publish(s1, IF act THEN "taskmanager-activated"
                                    ELSE "taskmanager-deactivated", 0 - 1)
       IN [s2 EXCEPT !.classes =
             Toggle(Toggle(@, "active", act), "empty",
                    act /\ Len(s.stack) = 0)]

\* new Card(...) is an object no live reference points to: the smallest
\* identity that neither a map nor this.currentCard holds, and not the one
\* under the finger (the callback of 'card-dropped' keeps a card too, but
\* reads only its app)
CardIds == 1 .. (2 * NumApps + 2)
FreshCardId(s) ==
  LET inUse == DOMAIN s.elementToCardMap \cup {s.currentCard.id, s.dragging}
  IN CHOOSE i \in CardIds : i \notin inUse /\ \A j \in 1 .. i - 1 : j \in inUse

\* the callback SettingsListener.observe() is given in start()
setScreenshotSetting(s, useScreenshots) ==
  [s EXCEPT !.disableScreenshots = ~useScreenshots]

_addApp(s, app) ==
  LET card == Card(app, s.disableScreenshots, FreshCardId(s))
  IN [s EXCEPT !.elementToCardMap = MapSet(@, card.id, card),
               !.appToCardMap = MapSet(@, app, card)]

\* mutant: the element map keeps the card
_removeAppLeak(s, app) ==
  IF app \in DOMAIN s.appToCardMap
  THEN LET card == s.appToCardMap[app]
       IN Log([s EXCEPT !.appToCardMap = Restrict(@, DOMAIN @ \ {app})],
              Call("removeChild", app, card.id, ""))
  ELSE s

_removeApp(s, app) ==
  IF app \in DOMAIN s.appToCardMap
  THEN LET card == s.appToCardMap[app]
       IN Log([s EXCEPT !.appToCardMap = Restrict(@, DOMAIN @ \ {app}),
                        !.elementToCardMap = Restrict(@, DOMAIN @ \ {card.id}),
                        !.cardX = Restrict(@, DOMAIN @ \ {card.id}),
                        !.aria = Restrict(@, DOMAIN @ \ {card.id})],
              Call("removeChild", app, card.id, ""))
  ELSE s

\* mutant: the index is not capped at the last card
getCurrentIndexUncapped(s) == s.scrollLeft \div s.cardWidth

getCurrentIndex(s) ==
  Min(Len(s.stack) - 1, s.scrollLeft \div s.cardWidth)

RECURSIVE setAttributes(_, _, _)
setAttributes(s, cur, i) ==
  IF i > Len(s.stack) THEN s
  ELSE LET app == s.stack[i]
       IN IF app \notin DOMAIN s.appToCardMap
          THEN Throw(s, "updateScrollPosition")
          ELSE LET card == s.appToCardMap[app]
                   attrs == [hidden |-> card # cur, setsize |-> Len(s.stack),
                             posinset |-> i]
               IN setAttributes(Log([s EXCEPT !.aria = MapSet(@, card.id, attrs)],
                                    Call("setAttribute", card.id, i, "aria")),
                                cur, i + 1)

\* mutant: the attributes are written on every call
updateScrollPositionAlways(s) ==
  LET index == getCurrentIndex(s)
      cur == IF index >= 0 /\ index < Len(s.stack)
                /\ s.stack[index + 1] \in DOMAIN s.appToCardMap
             THEN s.appToCardMap[s.stack[index + 1]]
             ELSE UndefCard
  IN setAttributes([s EXCEPT !.currentCard = cur], cur, 1)

updateScrollPosition(s) ==
  LET index == getCurrentIndex(s)
      cur == IF index >= 0 /\ index < Len(s.stack)
                /\ s.stack[index + 1] \in DOMAIN s.appToCardMap
             THEN s.appToCardMap[s.stack[index + 1]]
             ELSE UndefCard
  IN IF s.currentCard # cur
     THEN setAttributes([s EXCEPT !.currentCard = cur], cur, 1)
     ELSE s

\* mutant: the cards are laid side by side with no gutter
RECURSIVE translateCardsNoGutter(_, _, _)
translateCardsNoGutter(s, margins, i) ==
  IF i > Len(s.stack) THEN s
  ELSE LET app == s.stack[i]
       IN IF app \notin DOMAIN s.appToCardMap
          THEN Throw(s, "updateLayout")
          ELSE LET card == s.appToCardMap[app]
                   left == (margins \div 2) + (s.cardWidth * (i - 1))
               IN translateCardsNoGutter(
                    [s EXCEPT !.cardX = MapSet(@, card.id, left)], margins, i + 1)

RECURSIVE translateCards(_, _, _)
translateCards(s, margins, i) ==
  IF i > Len(s.stack) THEN s
  ELSE LET app == s.stack[i]
       IN IF app \notin DOMAIN s.appToCardMap
          THEN Throw(s, "updateLayout")
          ELSE LET card == s.appToCardMap[app]
                   offset == s.cardWidth + CARD_GUTTER
                   left == (margins \div 2) + (offset * (i - 1))
               IN translateCards([s EXCEPT !.cardX = MapSet(@, card.id, left)],
                                 margins, i + 1)

updateLayout(s) ==
  LET cw == s.innerWidth \div 2
      count == Len(s.stack)
      margins == s.innerWidth - cw
      cardStripWidth == cw * count + CARD_GUTTER * (count - 1)
      contentWidth == margins + Max(cw, cardStripWidth)
      s1 == translateCards([s EXCEPT !.cardWidth = cw], margins, 1)
      \* the scroll container keeps scrollLeft within the new content width
      s2 == [s1 EXCEPT !.cardsListWidth = contentWidth,
                       !.scrollLeft = Min(@, contentWidth - s.innerWidth)]
  IN IF Threw(s1) THEN s1
     ELSE updateScrollPosition(s2)

\* mutant: no card is removed
removeAbsentNever(s, apps, latestAppSet) == s

\* mutant: each removed card's window is told it has left
RECURSIVE removeAbsentNotify(_, _, _)
removeAbsentNotify(s, apps, latestAppSet) ==
  IF apps = {} THEN s
  ELSE LET app == CHOOSE x \in apps : TRUE
       IN removeAbsentNotify(
            IF app \notin latestAppSet
            THEN Log(_removeApp(s, app), Call("leaveTaskManager", app, 0, ""))
            ELSE s,
            apps \ {app}, latestAppSet)

RECURSIVE removeAbsent(_, _, _)
removeAbsent(s, apps, latestAppSet) ==
  IF apps = {} THEN s
  ELSE LET app == CHOOSE x \in apps : TRUE
       IN removeAbsent(IF app \notin latestAppSet THEN _removeApp(s, app) ELSE s,
                       apps \ {app}, latestAppSet)

\* mutant: a card is made for every window of the stack, mapped or not
RECURSIVE addMissingAlways(_, _)
addMissingAlways(s, i) ==
  IF i > Len(s.stack) THEN s
  ELSE addMissingAlways(Log(_addApp(s, s.stack[i]),
                            Call("enterTaskManager", s.stack[i], 0, "")), i + 1)

\* mutant: a new card is made without telling its window
RECURSIVE addMissingSilent(_, _)
addMissingSilent(s, i) ==
  IF i > Len(s.stack) THEN s
  ELSE LET app == s.stack[i]
       IN addMissingSilent(IF app \notin DOMAIN s.appToCardMap
                           THEN _addApp(s, app) ELSE s, i + 1)

RECURSIVE addMissing(_, _)
addMissing(s, i) ==
  IF i > Len(s.stack) THEN s
  ELSE LET app == s.stack[i]
       IN addMissing(IF app \notin DOMAIN s.appToCardMap
                     THEN Log(_addApp(s, app), Call("enterTaskManager", app, 0, ""))
                     ELSE s, i + 1)

updateStack(s) ==
  LET snapshot == s.smStack
      filtered == IF s.browserOnly THEN SelectSeq(snapshot, IsBrowser)
                  ELSE snapshot
      s1 == [s EXCEPT !.stack = filtered,
                      !.classes = Toggle(@, "filtered", s.browserOnly)]
      s2 == removeAbsent(Log(s1, Call("updateStack", 0, 0, "")),
                         DOMAIN s1.appToCardMap, Range(filtered))
      s3 == addMissing(s2, 1)
  IN updateLayout(s3)

\* eventSafety(newApp.element, '_opened', callback, 1000): the callback of hide()
hideDone(s) ==
  LET s1 == setActive(s, FALSE)
      s2 == [s1 EXCEPT !.classes = (@ \ {"to-home"}) \ {"filtered"}]
      leave[i \in 0 .. Len(s.stack)] ==
        IF i = 0 THEN s2
        ELSE Log(_removeApp(leave[i - 1], s.stack[i]),
                 Call("leaveTaskManager", s.stack[i], 0, ""))
  IN leave[Len(s.stack)]

\* q: what the collaborators answer during this handler
\*   q.active  Service.query('AppWindowManager.getActiveWindow')
\*   q.home    Service.query('getHomescreen', true)
\*   q.current StackManager.getCurrent()
\*   q.fresh   the window object made by new AppWindow(...)
\*
\* hide() past its guard (lines 346-394)
hideBegin(s, newAppArg, animation, q) ==
  LET s1 == [s EXCEPT !.isTransitioning = TRUE, !.listening = FALSE]
      newApp == IF newAppArg # NoWin THEN newAppArg
                ELSE IF q.active # NoWin THEN q.active ELSE q.home
      latestStack == s.smStack
      newStackPosition == IF newApp # NoWin THEN IndexOf(latestStack, newApp)
                          ELSE 0 - 1
      s2 == publish([s1 EXCEPT !.cardsView = FALSE], "cardviewclosed",
                    newStackPosition)
  IN IF newApp = NoWin THEN Throw(s2, "hide")
     ELSE LET s3 == IF IsHomescreen(newApp)
                    THEN Log([s2 EXCEPT !.classes = @ \cup {"to-home"}],
                             Call("open", newApp, 0, "home-from-cardview"))
                    ELSE Log(s2, Call("open", newApp, 0,
                                      IF animation # "" THEN animation
                                      ELSE "from-cardview"))
          IN Suspend(s3, Cont("opened", NoWin, ""))

\* mutant: hide() looks only at isShown(), not at the in-flight guard
hideIgnoresGuard(s0, newAppArg, animation, q) ==
  LET s == Log(s0, Call("hide", newAppArg, 0, animation))
  IN IF ~s.active THEN s ELSE hideBegin(s, newAppArg, animation, q)

hide(s0, newAppArg, animation, q) ==
  LET s == Log(s0, Call("hide", newAppArg, 0, animation))
  IN IF ~s.active \/ s.isTransitioning THEN s
     ELSE hideBegin(s, newAppArg, animation, q)

\* what runs when the promise of panToApp resolves
afterPan(s, then, app, q) ==
  CASE then = "kill" -> Log(s, Call("kill", app, 0, ""))
    [] then = "hide" -> hide(s, app, "", q)
    [] then = "resolve" -> Log(s, Call("resolve", 0, 0, ""))
    [] OTHER -> s

\* mutant: a window that is not in the stack sends the strip to the first card
panToAppToFirst(s, app, immediately, then, thenApp, q) ==
  LET found == IndexOf(s.stack, app)
      idx == IF found = 0 - 1 THEN 0 ELSE found
      currentPosition == s.scrollLeft
      desiredPosition == (s.cardWidth + CARD_GUTTER) * idx
      s1 == Log(s, Call("panToApp", app, idx, ""))
  IN IF currentPosition = desiredPosition
     THEN afterPan(s1, then, thenApp, q)
     ELSE LET s2 == [s1 EXCEPT !.scrollLeft =
                       Max(0, Min(desiredPosition,
                                  s.cardsListWidth - s.innerWidth))]
              s3 == Log(Log(s2, Call("scrollTo", desiredPosition, 0,
                                     IF immediately THEN "auto" ELSE "smooth")),
                        Call("setTimeout", PAN_SETTLE_DELAY, 0, ""))
          IN IF then = "" THEN s3
             ELSE Suspend(s3, Cont("pan", thenApp, then))

panToApp(s, app, immediately, then, thenApp, q) ==
  LET found == IndexOf(s.stack, app)
      idx == IF found = 0 - 1 THEN Len(s.stack) - 1 ELSE found
      currentPosition == s.scrollLeft
      desiredPosition == (s.cardWidth + CARD_GUTTER) * idx
      s1 == Log(s, Call("panToApp", app, idx, ""))
  IN IF currentPosition = desiredPosition
     THEN afterPan(s1, then, thenApp, q)
     ELSE LET s2 == [s1 EXCEPT !.scrollLeft =
                       Max(0, Min(desiredPosition,
                                  s.cardsListWidth - s.innerWidth))]
              s3 == Log(Log(s2, Call("scrollTo", desiredPosition, 0,
                                     IF immediately THEN "auto" ELSE "smooth")),
                        Call("setTimeout", PAN_SETTLE_DELAY, 0, ""))
          IN IF then = "" THEN s3
             ELSE Suspend(s3, Cont("pan", thenApp, then))

\* show() past its guard (lines 296-305)
showBegin(s, opts) ==
  Suspend(publish([s EXCEPT !.isTransitioning = TRUE,
                            !.browserOnly = opts.browserOnly],
                  "cardviewbeforeshow", 0 - 1),
          Cont("screenReady", NoWin, ""))

\* mutant: show() looks only at isShown(), not at the in-flight guard
showIgnoresGuard(s0, opts) ==
  LET s == Log(s0, Call("show", 0, 0, IF opts.browserOnly THEN "browserOnly" ELSE ""))
  IN IF s.active THEN s ELSE showBegin(s, opts)

show(s0, opts) ==
  LET s == Log(s0, Call("show", 0, 0, IF opts.browserOnly THEN "browserOnly" ELSE ""))
  IN IF s.active \/ s.isTransitioning THEN s ELSE showBegin(s, opts)

\* second continuation of show(): after waitForAppToClose(activeApp)
showDone(s) ==
  LET s1 == publish(s, "cardviewshown", 0 - 1)
  IN [s1 EXCEPT !.cardsView = TRUE, !.classes = @ \ {"from-home"}]

\* mutant: the first continuation of show() attaches no listener
showReadyDeaf(s, q) ==
  LET s2 == updateStack(s)
      s3 == panToApp(s2, q.current, TRUE, "", NoWin, q)
      s4 == setActive(s3, TRUE)
      activeApp == q.active
      s5 == IF activeApp # NoWin /\ IsHomescreen(activeApp)
            THEN Log([s4 EXCEPT !.classes = @ \cup {"from-home"}],
                     Call("close", activeApp, 0, "home-to-cardview"))
            ELSE s4
  IN IF activeApp = NoWin THEN showDone(s5)
     ELSE Suspend(s5, Cont("appClosed", NoWin, ""))

\* first continuation of show(): after waitForScreenToBeReady()
showReady(s, q) ==
  LET s1 == [s EXCEPT !.listening = TRUE]
      s2 == updateStack(s1)
      s3 == panToApp(s2, q.current, TRUE, "", NoWin, q)
      s4 == setActive(s3, TRUE)
      activeApp == q.active
      s5 == IF activeApp # NoWin /\ IsHomescreen(activeApp)
            THEN Log([s4 EXCEPT !.classes = @ \cup {"from-home"}],
                     Call("close", activeApp, 0, "home-to-cardview"))
            ELSE s4
  IN IF activeApp = NoWin THEN showDone(s5)
     ELSE Suspend(s5, Cont("appClosed", NoWin, ""))

\* mutant: a close kills at once, wherever the card is
cardActionKillsFirst(s, card, actionName, q) ==
  CASE actionName = "close" ->
         Log(Log(s, Call("cardAction:close", card.app,
                         IndexOf(s.stack, card.app), "")),
             Call("kill", card.app, 0, ""))
    [] actionName = "select" ->
         panToApp(Log(s, Call("cardAction:select", card.app, 0, "")),
                  card.app, FALSE, "hide", card.app, q)
    [] OTHER -> s

cardAction(s, card, actionName, q) ==
  CASE actionName = "close" ->
         LET index == IndexOf(s.stack, card.app)
             s1 == Log(s, Call("cardAction:close", card.app, index, ""))
         IN IF Len(s.stack) > 1 /\ index = Len(s.stack) - 1
            THEN panToApp(s1, s.stack[Len(s.stack) - 1], FALSE, "kill",
                          card.app, q)
            ELSE Log(s1, Call("kill", card.app, 0, ""))
    [] actionName = "select" ->
         panToApp(Log(s, Call("cardAction:select", card.app, 0, "")),
                  card.app, FALSE, "hide", card.app, q)
    [] OTHER -> s

openNewSheet(s, isPrivate, q) ==
  LET appWindow == q.fresh
      \* the new window registers itself with the StackManager
      s1 == [s EXCEPT !.smStack = Append(@, appWindow),
                      !.classes = @ \ {"empty"}]
      s2 == updateStack(s1)
  IN IF appWindow \notin DOMAIN s2.appToCardMap THEN Throw(s2, "openNewSheet")
     ELSE hide(panToApp(s2, appWindow, FALSE, "", NoWin, q),
               appWindow, "from-new-card", q)

\* case 'scroll' of handleEvent
onScroll(s, evt) ==
  LET s0 == Log(s, Call("scroll", evt.now, 0, ""))
      s1 == IF s.overflowX = "hidden" THEN s0
            ELSE [s0 EXCEPT !.lastScrollTimestamp = evt.now]
  IN updateScrollPosition(s1)

\* mutant: a scroll at the very time of the first touch locks the axis too
onCardWillDragLax(s, evt) ==
  LET s0 == Log(s, Call("card-will-drag", evt.firstTouchTimestamp, evt.el, ""))
      last == IF s.lastScrollTimestamp = NoTime THEN 0
              ELSE s.lastScrollTimestamp
  IN IF evt.firstTouchTimestamp <= last
     THEN Log(s0, Call("preventDefault", 0, 0, ""))
     ELSE [s0 EXCEPT !.overflowX = "hidden"]

\* case 'card-will-drag' of handleEvent
onCardWillDrag(s, evt) ==
  LET s0 == Log(s, Call("card-will-drag", evt.firstTouchTimestamp, evt.el, ""))
      last == IF s.lastScrollTimestamp = NoTime THEN 0
              ELSE s.lastScrollTimestamp
  IN IF evt.firstTouchTimestamp < last
     THEN Log(s0, Call("preventDefault", 0, 0, ""))
     ELSE [s0 EXCEPT !.overflowX = "hidden"]

\* mutant: a downward page gesture kills whatever killable() answers
onWheelKillsAnyway(s, evt, q) ==
  LET s0 == Log(s, Call("wheel", 0, 0, ""))
      cur == s.currentCard
      s1 == IF evt.deltaMode = "DOM_DELTA_PAGE" /\ cur # NullCard /\ cur # UndefCard
            THEN LET currentIndex == IndexOf(s.stack, cur.app)
                 IN IF evt.deltaY > 0
                    THEN Log(s0, Call("kill", cur.app, 0, ""))
                    ELSE IF evt.deltaX < 0 /\ currentIndex >= 1
                    THEN panToApp(s0, s.stack[currentIndex], FALSE, "", NoWin, q)
                    ELSE IF evt.deltaX > 0 /\ currentIndex < Len(s.stack) - 1
                    THEN panToApp(s0, s.stack[currentIndex + 2], FALSE, "", NoWin, q)
                    ELSE s0
            ELSE s0
  IN updateScrollPosition(s1)

\* case 'wheel' of handleEvent; q.killable is what app.killable() answers
onWheel(s, evt, q) ==
  LET s0 == Log(s, Call("wheel", 0, 0, ""))
      cur == s.currentCard
      s1 == IF evt.deltaMode = "DOM_DELTA_PAGE" /\ cur # NullCard /\ cur # UndefCard
            THEN LET currentIndex == IndexOf(s.stack, cur.app)
                 IN IF evt.deltaY > 0 /\ q.killable
                    THEN Log(s0, Call("kill", cur.app, 0, ""))
                    ELSE IF evt.deltaX < 0 /\ currentIndex >= 1
                    THEN panToApp(s0, s.stack[currentIndex], FALSE, "", NoWin, q)
                    ELSE IF evt.deltaX > 0 /\ currentIndex < Len(s.stack) - 1
                    THEN panToApp(s0, s.stack[currentIndex + 2], FALSE, "", NoWin, q)
                    ELSE s0
            ELSE s0
  IN updateScrollPosition(s1)

handleEvent(s, evt, q) ==
  CASE evt.type = "click" ->
         IF evt.target = "newSheetButton" THEN openNewSheet(s, FALSE, q)
         ELSE IF evt.target = "newPrivateSheetButton"
              THEN openNewSheet(s, TRUE, q)
         ELSE IF "empty" \in s.classes THEN hide(s, q.home, "", q)
         ELSE IF evt.el \in DOMAIN s.elementToCardMap
              THEN cardAction(s, s.elementToCardMap[evt.el],
                              IF evt.buttonAction # "" THEN evt.buttonAction
                              ELSE "select", q)
              ELSE s
    [] evt.type = "resize" -> updateLayout(s)
    [] evt.type = "scroll" -> onScroll(s, evt)
    [] evt.type = "card-will-drag" -> onCardWillDrag(s, evt)
    [] evt.type = "wheel" -> onWheel(s, evt, q)
    [] evt.type = "card-dropped" ->
         LET s1 == [s EXCEPT !.overflowX = "scroll"]
         IN IF evt.willKill
            THEN IF evt.el \in DOMAIN s.elementToCardMap
                 THEN Suspend(s1, Cont("dropped", s.elementToCardMap[evt.el].app,
                                       "close"))
                 ELSE Throw(s1, "card-dropped")
            ELSE s1
    [] evt.type \in {"lockscreen-appopened", "attentionopened", "appopen"} ->
         hide(s, NoWin, "", q)
    [] evt.type = "taskmanagershow" ->
         show(s, [browserOnly |-> evt.filter = "browser-only"])
    [] evt.type = "appterminated" ->
         LET s1 == updateStack(s)
         IN IF Len(s1.stack) = 0 THEN hide(s1, NoWin, "", q) ELSE s1
    [] OTHER -> s

\* the value a handler returns, unless it threw before returning
Return(s, v) == IF Threw(s) THEN s ELSE Log(s, Call("return", 0, 0, v))

respondToHierarchyEvent(s0, evt, q) ==
  LET s == Log(s0, Call("respondToHierarchyEvent", 0, 0, evt.type))
  IN
  IF ~s.isTransitioning
  THEN IF evt.type = "home"
       THEN IF s.active
            THEN Return(hide(s, q.home, "", q), "false")
            ELSE Return(s, "true")
       ELSE IF evt.type = "holdhome" /\ ~s.active
            THEN Return(show(s, [browserOnly |-> FALSE]), "false")
            ELSE Return(s, "true")
  ELSE Return(s, "true")

\* ---- the environment's answers and events --------------------------------
Evt(type, target, el, buttonAction, willKill, filter) ==
  [type |-> type, target |-> target, el |-> el, buttonAction |-> buttonAction,
   willKill |-> willKill, filter |-> filter]

Q(a, h, c, f) == [active |-> a, home |-> h, current |-> c, fresh |-> f]

\* the active window is a running window, the homescreen, or none yet
ActiveChoices == Range(smStack) \cup {Home, NoWin}
HomeChoices == {Home, NoWin}
CurrentChoices == IF smStack = <<>> THEN {NoWin} ELSE Range(smStack)
HideQueries ==
  {Q(a, h, NoWin, NoWin) : a \in ActiveChoices, h \in HomeChoices}
    \ {Q(Home, NoWin, NoWin, NoWin)}

RECURSIVE SumCopies(_, _)
SumCopies(B, S) ==
  IF S = {} THEN 0
  ELSE LET e == CHOOSE x \in S : TRUE
       IN CopiesIn(e, B) + SumCopies(B, S \ {e})
CountKind(K) == SumCopies(pending, {c \in BagToSet(pending) : c.k \in K})
Suspended(kind) == {c \in BagToSet(pending) : c.k = kind}

\* room left for one more gesture continuation / one more show
GestureRoom == CountKind({"pan", "dropped"}) < MaxPending
ShowRoom == CountKind({"appClosed"}) < MaxPending

\* the state the constructor leaves
Constructed ==
  /\ stack = <<>>
  /\ appToCardMap = <<>>
  /\ elementToCardMap = <<>>
  /\ currentCard = NullCard
  /\ active = FALSE
  /\ isTransitioning = FALSE
  /\ browserOnly = FALSE
  /\ disableScreenshots = FALSE
  /\ listening = FALSE
  /\ classes = {}
  /\ cardsView = FALSE
  /\ cardWidth = 0
  /\ cardsListWidth = 0
  /\ cardX = <<>>
  /\ aria = <<>>
  /\ scrollLeft = 0
  /\ overflowX = ""
  /\ lastScrollTimestamp = NoTime
  /\ dragging = 0
  /\ pending = EmptyBag
  /\ calls = <<>>

Init ==
  /\ smStack = <<>>
  /\ innerWidth \in ViewportWidths
  /\ Constructed

\* ---- events --------------------------------------------------------------
\* a window is launched or brought to the front: it is the active window, and
\* the StackManager records it before the 'appopen' listener runs
AppOpen(w) ==
  /\ w \notin Range(smStack) \/ listening
  /\ LET s == [State EXCEPT !.smStack =
                 IF w \in Range(@) THEN @ ELSE Append(@, w)]
     IN \E q \in {Q(w, h, NoWin, NoWin) : h \in HomeChoices} :
          Commit(IF listening
                 THEN handleEvent(s, Evt("appopen", "", 0, "", FALSE, ""), q)
                 ELSE s)

AttentionOpened(type) ==
  /\ listening
  /\ \E q \in HideQueries :
       Commit(handleEvent(State, Evt(type, "", 0, "", FALSE, ""), q))

\* a window terminates; the StackManager drops it before the listener runs
AppTerminated(w) ==
  /\ w \in Range(smStack)
  /\ LET s == [State EXCEPT !.smStack = Without(@, w)]
     IN \E q \in {Q(a, h, NoWin, NoWin) :
                    a \in (Range(s.smStack) \cup {Home, NoWin}),
                    h \in HomeChoices} \ {Q(Home, NoWin, NoWin, NoWin)} :
          Commit(IF listening
                 THEN handleEvent(s, Evt("appterminated", "", 0, "", FALSE, ""), q)
                 ELSE s)

TaskManagerShow(filter) ==
  /\ ShowRoom
  /\ Commit(handleEvent(State, Evt("taskmanagershow", "", 0, "", FALSE, filter),
                        Q(NoWin, NoWin, NoWin, NoWin)))

HoldHome ==
  /\ ShowRoom
  /\ Commit(respondToHierarchyEvent(State, [type |-> "holdhome"],
                                    Q(NoWin, NoWin, NoWin, NoWin)))

HomeButton ==
  \E q \in HideQueries :
    Commit(respondToHierarchyEvent(State, [type |-> "home"], q))

ClickCard(el, buttonAction) ==
  /\ listening
  /\ GestureRoom
  /\ el \in DOMAIN elementToCardMap \cup {0}
  /\ \E q \in HideQueries :
       Commit(handleEvent(State, Evt("click", "card", el, buttonAction, FALSE, ""), q))

ClickNewSheet(target) ==
  /\ listening
  /\ \E w \in {x \in Windows \ Range(smStack) : IsBrowser(x)} :
       Commit(handleEvent(State, Evt("click", target, 0, "", FALSE, ""),
                          Q(NoWin, NoWin, NoWin, w)))

\* a 'card-dropped' event reaches the listener of this.element, from a card
\* or (el = 0) from an element that is no card
CardDropped(el, willKill) ==
  /\ listening
  /\ GestureRoom
  /\ el \in DOMAIN elementToCardMap \cup {0}
  /\ Commit(handleEvent(State, Evt("card-dropped", "card", el, "", willKill, ""),
                        Q(NoWin, NoWin, NoWin, NoWin)))

\* the finger leaves the card it drags, which dispatches 'card-dropped'; the
\* event reaches the listener of this.element if that listener is attached
\* and the card's element is still in the list
DragEnds(willKill) ==
  /\ dragging # 0
  /\ GestureRoom
  /\ LET s == [State EXCEPT !.dragging = 0]
     IN Commit(IF listening /\ dragging \in DOMAIN elementToCardMap
               THEN handleEvent(s, Evt("card-dropped", "card", dragging, "",
                                       willKill, ""),
                                Q(NoWin, NoWin, NoWin, NoWin))
               ELSE s)

\* a card asks to start a drag (one finger: no drag is under way)
CardWillDrag(el, firstTouchTimestamp) ==
  /\ listening
  /\ dragging = 0
  /\ el \in DOMAIN elementToCardMap
  /\ LET s == handleEvent(State, [type |-> "card-will-drag", el |-> el,
                                  firstTouchTimestamp |-> firstTouchTimestamp],
                          Q(NoWin, NoWin, NoWin, NoWin))
     IN Commit(IF s.calls[Len(s.calls)].op = "preventDefault" THEN s
               ELSE [s EXCEPT !.dragging = el])

\* the offsets a scroll may leave the strip at
MaxScrollLeft == Max(0, cardsListWidth - innerWidth)
ScrollOffsets ==
  {x \in UNION {{i * cardWidth - 1, i * cardWidth, i * (cardWidth + CARD_GUTTER)} :
                  i \in 0 .. Len(stack)} : 0 <= x /\ x <= MaxScrollLeft}

\* the strip was scrolled, by the user (unless overflow-x is hidden) or by
\* an earlier scrollTo, and a 'scroll' event reports it
Scroll(x, now) ==
  /\ listening
  /\ x \in ScrollOffsets \cup {scrollLeft}
  /\ overflowX # "hidden" \/ x = scrollLeft
  /\ now >= lastScrollTimestamp
  /\ Commit(handleEvent([State EXCEPT !.scrollLeft = x],
                        [type |-> "scroll", now |-> now],
                        Q(NoWin, NoWin, NoWin, NoWin)))

Resize(w) ==
  /\ listening
  /\ Commit(handleEvent([State EXCEPT !.innerWidth = w], [type |-> "resize"],
                        Q(NoWin, NoWin, NoWin, NoWin)))

WheelEvt(deltaMode, deltaX, deltaY) ==
  [type |-> "wheel", deltaMode |-> deltaMode, deltaX |-> deltaX,
   deltaY |-> deltaY]
WheelGestures ==
  {WheelEvt("DOM_DELTA_PAGE", 0, 1), WheelEvt("DOM_DELTA_PAGE", 0 - 1, 0),
   WheelEvt("DOM_DELTA_PAGE", 1, 0), WheelEvt("DOM_DELTA_PIXEL", 0, 1)}

QK(killable) ==
  [active |-> NoWin, home |-> NoWin, current |-> NoWin, fresh |-> NoWin,
   killable |-> killable]

Wheel(evt, killable) ==
  /\ listening
  /\ Commit(handleEvent(State, evt, QK(killable)))

\* ---- continuations -------------------------------------------------------
\* TaskManagerUtils.waitForScreenToBeReady() resolves
ScreenReady ==
  \E c \in Suspended("screenReady") :
    \E a \in ActiveChoices, cur \in CurrentChoices :
      Commit(showReady(Resume(State, c), Q(a, Home, cur, NoWin)))

\* TaskManagerUtils.waitForAppToClose(activeApp) resolves
AppClosed ==
  \E c \in Suspended("appClosed") :
    Commit(showDone(Resume(State, c)))

\* eventSafety of hide(): the target window signals '_opened'
OpenedAck ==
  \E c \in Suspended("opened") :
    Commit(hideDone(Resume(State, c)))

\* eventSafety of hide(): no signal within the bound
OpenedTimeout ==
  \E c \in Suspended("opened") :
    Commit(hideDone(Resume(State, c)))

\* setTimeout(resolve, 200) of panToApp
PanSettled ==
  \E c \in Suspended("pan") :
    \E q \in HideQueries :
      Commit(afterPan(Resume(State, c), c.then, c.a, q))

\* eventSafety of 'card-dropped': 'transitionend' or 400 elapsed
DropSettled ==
  \E c \in Suspended("dropped") :
    \E q \in HideQueries :
      Commit(cardAction(Resume(State, c), Card(c.a, FALSE, 0), c.then, q))

Next ==
  \/ \E w \in Windows : AppOpen(w)
  \/ \E type \in {"attentionopened", "lockscreen-appopened"} : AttentionOpened(type)
  \/ \E w \in Windows : AppTerminated(w)
  \/ \E filter \in {"", "browser-only"} : TaskManagerShow(filter)
  \/ HoldHome
  \/ HomeButton
  \/ \E el \in {0} \cup CardIds, b \in {"", "close", "favorite"} : ClickCard(el, b)
  \/ \E target \in {"newSheetButton", "newPrivateSheetButton"} : ClickNewSheet(target)
  \/ \E el \in {0} \cup CardIds, willKill \in BOOLEAN : CardDropped(el, willKill)
  \/ ScreenReady
  \/ AppClosed
  \/ OpenedAck
  \/ OpenedTimeout
  \/ PanSettled
  \/ DropSettled

Spec == Init /\ [][Next]_vars

\* ---- the gestures on the shown strip -------------------------------------
\* the switcher is shown and hidden as above, and while it is shown the strip
\* is scrolled, cards are dragged and dropped, and wheel gestures arrive
GestureNext ==
  \/ \E w \in Windows : AppOpen(w)
  \/ AttentionOpened("attentionopened")
  \/ TaskManagerShow("")
  \/ HomeButton
  \/ \E el \in CardIds, t \in 0 .. MaxTime : CardWillDrag(el, t)
  \/ DragEnds(FALSE)
  \/ \E x \in ScrollOffsets \cup {scrollLeft}, now \in Clock : Scroll(x, now)
  \/ \E w \in ViewportWidths : Resize(w)
  \/ \E evt \in WheelGestures, killable \in BOOLEAN : Wheel(evt, killable)
  \/ ScreenReady
  \/ AppClosed
  \/ OpenedAck

GestureSpec == Init /\ [][GestureNext]_vars

\* ---- layout and scrolling over viewports and stacks ----------------------
\* the switcher is constructed with some windows running in a viewport of
\* some width, is shown, and the strip is then resized, scrolled and panned
LayoutInit ==
  /\ smStack \in LayoutStacks
  /\ innerWidth \in LayoutWidths
  /\ Constructed

LayoutNext ==
  \/ TaskManagerShow("")
  \/ ScreenReady
  \/ AppClosed
  \/ \E w \in LayoutWidths : Resize(w)
  \/ \E x \in ScrollOffsets \cup {scrollLeft}, now \in Clock : Scroll(x, now)
  \/ \E evt \in WheelGestures, killable \in BOOLEAN : Wheel(evt, killable)

LayoutSpec == LayoutInit /\ [][LayoutNext]_vars

\* ---- the screenshot preference ------------------------------------------
\* the "show screenshots" setting changes at any time, shown or hidden
SetScreenshotSetting(useScreenshots) ==
  /\ useScreenshots \in BOOLEAN
  /\ Commit(setScreenshotSetting(State, useScreenshots))

SettingsNext ==
  \/ \E w \in Windows : AppOpen(w)
  \/ \E w \in Windows : AppTerminated(w)
  \/ TaskManagerShow("")
  \/ HomeButton
  \/ ScreenReady
  \/ AppClosed
  \/ OpenedAck
  \/ \E useScreenshots \in BOOLEAN : SetScreenshotSetting(useScreenshots)

SettingsSpec == Init /\ [][SettingsNext]_vars

\* ---- what the handler that ran last did ----------------------------------
Did(op) == \E i \in 1 .. Len(calls) : calls[i].op = op
DidCall(c) == \E i \in 1 .. Len(calls) : calls[i] = c
Times(c) == Cardinality({i \in 1 .. Len(calls) : calls[i] = c})
Published(type) == \E i \in 1 .. Len(calls) : calls[i].op = "publish" /\ calls[i].t = type
PassCompleted == Did("updateStack")
Filtered(snapshot) == IF browserOnly THEN SelectSeq(snapshot, IsBrowser) ELSE snapshot

\* C1: after every completed updateStack() pass the keys of appToCardMap are
\* exactly the handles of the (possibly filtered) snapshot kept in this.stack:
\* one card per handle, and no card for any other handle.
C1_CardsMatchStack ==
  PassCompleted =>
    /\ stack = Filtered(smStack)
    /\ DOMAIN appToCardMap = Range(stack)
    /\ \A app \in DOMAIN appToCardMap :
         /\ appToCardMap[app].app = app
         /\ appToCardMap[app].id \in DOMAIN elementToCardMap
         /\ elementToCardMap[appToCardMap[app].id] = appToCardMap[app]
    /\ \A el \in DOMAIN elementToCardMap :
         /\ elementToCardMap[el].app \in DOMAIN appToCardMap
         /\ appToCardMap[elementToCardMap[el].app] = elementToCardMap[el]

\* a pass under the browser-only filter that kept one window and dropped another
C1_Witness ==
  /\ PassCompleted
  /\ browserOnly
  /\ Len(stack) = 1
  /\ Len(smStack) = 2
  /\ DOMAIN appToCardMap = {stack[1]}

\* C6: updateStack() is idempotent: run again on the state a pass left, with the
\* same snapshot, it keeps the stack and both card maps (the same Card objects)
\* and calls enterTaskManager on no window.
C6_UpdateStackIdempotent ==
  PassCompleted =>
    LET again == updateStack(State)
    IN /\ again.stack = stack
       /\ again.appToCardMap = appToCardMap
       /\ again.elementToCardMap = elementToCardMap
       /\ \A i \in 1 .. Len(again.calls) :
            again.calls[i].op \notin {"enterTaskManager", "removeChild"}

\* a pass that created two cards, on which the second run has something to keep
C6_Witness ==
  /\ PassCompleted
  /\ Cardinality(DOMAIN appToCardMap) = 2
  /\ Did("enterTaskManager")

RemovedCount(app) ==
  Cardinality({i \in 1 .. Len(calls) : calls[i].op = "removeChild" /\ calls[i].a = app})
Leave(app) == Call("leaveTaskManager", app, 0, "")

\* C9: when a hide transition completes, every card left in the collection is
\* removed and its window gets leaveTaskManager exactly once; so whenever the
\* switcher is not active both card maps are empty.
C9_HiddenHasNoCards ==
  /\ ~active => DOMAIN appToCardMap = {} /\ DOMAIN elementToCardMap = {}
  /\ Published("taskmanager-deactivated") =>
       \A app \in Windows :
         /\ Times(Leave(app)) = RemovedCount(app)
         /\ Times(Leave(app)) <= 1
         /\ (app \in Range(stack)) = (Times(Leave(app)) = 1)

\* a hide transition has just completed and tore down two cards
C9_Witness ==
  /\ ~active
  /\ Published("taskmanager-deactivated")
  /\ \A app \in Windows : app <= 2 => DidCall(Leave(app))

\* C10 as claimed: every card a reconciliation pass removes has
\* leaveTaskManager called on its window.
C10_RemovedIsNotified ==
  PassCompleted =>
    \A i \in 1 .. Len(calls) :
      calls[i].op = "removeChild" => DidCall(Leave(calls[i].a))

\* C10 as amended: a card a reconciliation pass removes is dropped from both
\* maps and the pass calls leaveTaskManager on no window (only the teardown
\* of hide() does).
C10_RemovedWithoutLeave ==
  PassCompleted =>
    /\ ~Did("leaveTaskManager")
    /\ \A i \in 1 .. Len(calls) :
         calls[i].op = "removeChild" =>
           /\ calls[i].a \notin DOMAIN appToCardMap
           /\ \A el \in DOMAIN elementToCardMap :
                elementToCardMap[el].app # calls[i].a

\* a pass that removed the card of a terminated window while another stayed
C10_Witness ==
  /\ PassCompleted
  /\ Did("removeChild")
  /\ DOMAIN appToCardMap # {}

\* a show transition is in flight from show() passing its guard until its
\* 'cardviewshown'; a hide transition from hide() arming its teardown until
\* the teardown has run
ShowInFlight == CountKind({"screenReady", "appClosed"}) > 0
HideInFlight == CountKind({"opened"}) > 0

\* C2 as claimed: no hide transition begins during an in-flight show, and no
\* show transition during an in-flight hide: the two are never in flight
\* together.
C2_NoOverlappingTransitions == ~(ShowInFlight /\ HideInFlight)

\* C3: show() called while shown or while a transition is in flight, and
\* hide() called while hidden or while a transition is in flight, publish
\* nothing, touch no listener and leave the active flag, the guard, the stack
\* and the cards as they were; a redundant show() suspends no second
\* continuation, so one 'cardviewshown' follows.
RedundantShow ==
  /\ Len(calls') >= 1
  /\ calls'[1].op = "show"
  /\ active \/ isTransitioning
RedundantHide ==
  /\ Len(calls') >= 1
  /\ calls'[1].op = "hide"
  /\ ~active \/ isTransitioning
C4_HideTeardownArmed ==
  (active /\ isTransitioning) => CountKind({"opened"}) = 1

\* C5 as claimed: hide() with no explicit target, no active window and no home
\* surface raises no error.
C5_AbsentTargetRaisesNothing == ~DidCall(Call("TypeError", 0, 0, "hide"))

\* C7: a close on the last card of a stack of n >= 2 calls panToApp for the
\* card at position n-2 and kills the window only once that pan has resolved
\* (at once when the strip is already there, else when the 200 timer has
\* fired); a close on an earlier card kills at once and pans nowhere.
C7_CloseOrder ==
  \A i \in 1 .. Len(calls) :
    (calls[i].op = "cardAction:close" /\ Len(stack) >= 2 /\ calls[i].b >= 0) =>
      LET app == calls[i].a
          n == Len(stack)
          kill == Call("kill", app, 0, "")
      IN IF calls[i].b = n - 1
         THEN /\ Len(calls) >= i + 2
              /\ calls[i + 1] = Call("panToApp", stack[n - 1], n - 2, "")
              /\ \/ /\ calls[i + 2].op = "scrollTo"
                    /\ calls[i + 2].a = (cardWidth + CARD_GUTTER) * (n - 2)
                    /\ ~DidCall(kill)
                    /\ BagIn(Cont("pan", app, "kill"), pending)
                 \/ /\ calls[i + 2] = kill
                    /\ ~Did("scrollTo")
                    /\ scrollLeft = (cardWidth + CARD_GUTTER) * (n - 2)
         ELSE /\ Len(calls) >= i + 1
              /\ calls[i + 1] = kill
              /\ ~Did("panToApp")

\* the last of two cards was closed and its kill waits for the pan
C7_Witness ==
  /\ Len(stack) = 2
  /\ DidCall(Call("cardAction:close", stack[2], 1, ""))
  /\ Did("scrollTo")
  /\ BagIn(Cont("pan", stack[2], "kill"), pending)

\* C8: setActive takes effect once per transition: 'taskmanager-activated' is
\* published exactly when the active flag goes up, which is when the first
\* continuation of show() runs, 'taskmanager-deactivated' exactly when it
\* goes down, which is when the teardown of hide() runs, each with the guard
\* cleared; so the two alternate from 'taskmanager-activated', and setActive
\* never returns early.
Activated == Published("taskmanager-activated")
Deactivated == Published("taskmanager-deactivated")
C8_SetActiveOncePerTransition ==
  /\ [](/\ ~Did("setActive:return")
        /\ Cardinality({i \in 1 .. Len(calls) :
             /\ calls[i].op = "publish"
             /\ calls[i].t \in {"taskmanager-activated",
                                "taskmanager-deactivated"}}) <= 1
        /\ Activated => active /\ ~isTransitioning
        /\ Deactivated => ~active /\ ~isTransitioning)
  /\ [][/\ Activated' <=> (~active /\ active')
        /\ Deactivated' <=> (active /\ ~active')
        /\ CountKind({"screenReady"})' < CountKind({"screenReady"}) => Activated'
        /\ CountKind({"opened"})' < CountKind({"opened"}) => Deactivated']_vars

\* the first continuation of show() has run over a non-empty stack
C8_Witness ==
  /\ Activated
  /\ active
  /\ ~isTransitioning
  /\ stack # <<>>

Enter(app) == Call("enterTaskManager", app, 0, "")

\* C11: a handler calls enterTaskManager on a window at most once, only on a
\* window that had no card when the handler began and has one when it ends,
\* and on every window whose card it created; so a window is entered again
\* only after its previous card was removed.
C11_EnterOncePerNewCard ==
  [][\A app \in Windows :
       /\ Times(Enter(app))' <= 1
       /\ Times(Enter(app))' = 1 =>
            /\ app \notin DOMAIN appToCardMap
            /\ app \in DOMAIN appToCardMap'
       /\ (/\ app \in DOMAIN appToCardMap'
           /\ app \in DOMAIN appToCardMap => appToCardMap'[app] # appToCardMap[app])
          => Times(Enter(app))' = 1]_vars

\* a pass that made a card for one window and kept the card of another
C11_Witness ==
  /\ PassCompleted
  /\ Cardinality(DOMAIN appToCardMap) = 2
  /\ Cardinality({i \in 1 .. Len(calls) : calls[i].op = "enterTaskManager"}) = 1

Requested(type) == DidCall(Call("respondToHierarchyEvent", 0, 0, type))
Returned(v) == DidCall(Call("return", 0, 0, v))

\* C12 as claimed: a 'home' request returns false and starts hide() exactly
\* when the switcher is shown and not in transition, a 'holdhome' request
\* returns false and starts show() exactly when it is hidden and not in
\* transition; every other request returns true and changes nothing.
C12_ConsumedIffVisibilityChanged ==
  [][\A type \in {"home", "holdhome"} :
       Requested(type)' =>
         IF ~isTransitioning /\ (active <=> type = "home")
         THEN /\ Returned("false")'
              /\ ~Returned("true")'
              /\ isTransitioning'
              /\ active' = active
              /\ IF type = "home"
                 THEN CountKind({"opened"})' = CountKind({"opened"}) + 1
                 ELSE CountKind({"screenReady"})' = CountKind({"screenReady"}) + 1
         ELSE /\ Returned("true")'
              /\ ~Returned("false")'
              /\ UNCHANGED <<smStack, stack, appToCardMap, elementToCardMap,
                             currentCard, active, isTransitioning, browserOnly,
                             listening, classes, cardsView, scrollLeft,
                             overflowX, pending>>]_vars

Clamp(v, lo, hi) == Max(lo, Min(v, hi))
IndexAt(x) == getCurrentIndex([State EXCEPT !.scrollLeft = x])

\* C13: while the switcher is shown over a non-empty stack, getCurrentIndex()
\* is within 0 .. n-1 at every scroll offset of the strip and equals
\* clamp(floor(scrollLeft / cardWidth), 0, n-1).
C13_CurrentIndexInRange ==
  (active /\ stack # <<>>) =>
    \A x \in 0 .. MaxScrollLeft :
      /\ 0 <= IndexAt(x)
      /\ IndexAt(x) <= Len(stack) - 1
      /\ IndexAt(x) = Clamp(x \div cardWidth, 0, Len(stack) - 1)

\* the strip rests so far right that floor(scrollLeft / cardWidth) is past
\* the last card, which is the current card
C13_Witness ==
  /\ active
  /\ Len(stack) >= 2
  /\ scrollLeft \div cardWidth > Len(stack) - 1
  /\ Did("scroll")
  /\ currentCard = appToCardMap[stack[Len(stack)]]

AriaWrites(c) == Cardinality({i \in 1 .. Len(c) : c[i].op = "setAttribute"})

\* C14: updateScrollPosition() writes accessibility attributes only when the
\* card at the current index is not the stored current card; called again
\* with the scroll offset and the stack unchanged it writes nothing and
\* leaves currentCard and every card's attributes as they are.
C14_NoRedundantAriaWrites ==
  listening =>
    LET once == updateScrollPosition(State)
        again == updateScrollPosition([once EXCEPT !.calls = <<>>])
    IN /\ ~Threw(once)
       /\ AriaWrites(again.calls) = 0
       /\ again.currentCard = once.currentCard
       /\ again.aria = once.aria
       /\ AriaWrites(once.calls) > 0 => once.currentCard # currentCard
       /\ once.currentCard = currentCard =>
            AriaWrites(once.calls) = 0 /\ once.aria = aria

\* a 'scroll' event moved the strip within the same card and wrote nothing
C14_Witness ==
  /\ Did("scroll")
  /\ ~Did("setAttribute")
  /\ Len(stack) = 2
  /\ scrollLeft > 0

\* C15: updateLayout() makes cardWidth half the viewport width, puts the
\* card at stack position i at margin/2 + i * (cardWidth + 25) with margin =
\* width - cardWidth, so consecutive cards are cardWidth + 25 apart, and
\* makes the list margin + max(cardWidth, cardWidth * n + 25 * (n - 1))
\* wide, which is not negative, also for n = 0.
C15_LayoutOffsets ==
  listening =>
    LET n == Len(stack)
        margin == innerWidth - cardWidth
        x(i) == cardX[appToCardMap[stack[i]].id]
    IN /\ 2 * cardWidth = innerWidth
       /\ \A i \in 1 .. n :
            /\ stack[i] \in DOMAIN appToCardMap
            /\ 2 * x(i) = margin + 2 * (i - 1) * (cardWidth + 25)
       /\ \A i \in 1 .. n - 1 : x(i + 1) - x(i) = cardWidth + CARD_GUTTER
       /\ cardsListWidth = margin + Max(cardWidth, cardWidth * n + 25 * (n - 1))
       /\ cardsListWidth >= 0

\* three cards in a viewport 320 wide: offsets 80, 265, 450, list 690 wide
C15_Witness ==
  /\ PassCompleted
  /\ innerWidth = 320
  /\ Len(stack) = 3
  /\ \A i \in 1 .. 3 : cardX[appToCardMap[stack[i]].id] = 80 + 185 * (i - 1)
  /\ cardsListWidth = 160 + 530

\* C16: in every step that handles 'card-will-drag', the drag is prevented
\* exactly when the first touch is earlier than the last recorded scroll (0
\* if none was recorded); a prevented drag leaves overflow-x alone, an
\* accepted one hides it; a 'scroll' event records its time unless
\* overflow-x is hidden, and nothing else changes the record.
C16_AxisLock ==
  [][/\ Did("card-will-drag")' =>
          LET firstTouch == calls'[1].a
              last == IF lastScrollTimestamp = NoTime THEN 0
                      ELSE lastScrollTimestamp
          IN /\ Did("preventDefault")' <=> firstTouch < last
             /\ Did("preventDefault")' =>
                  overflowX' = overflowX /\ dragging' = dragging
             /\ ~Did("preventDefault")' => overflowX' = "hidden"
     /\ lastScrollTimestamp' =
          IF Did("scroll")' /\ overflowX # "hidden" THEN calls'[1].a
          ELSE lastScrollTimestamp]_vars

\* a drag was prevented because the strip had scrolled after the first touch
C16_Witness ==
  /\ Did("card-will-drag")
  /\ Did("preventDefault")
  /\ lastScrollTimestamp # NoTime
  /\ overflowX # "hidden"

\* C17 as claimed: overflow-x is hidden only while an accepted drag is under
\* way: once the finger has left the card, horizontal scrolling is back.
C17_ScrollRestoredAfterDrop == overflowX = "hidden" => dragging # 0

\* C18 as claimed: a 'card-dropped' event whose target has no card raises no
\* error.
C18_LookupMissIsIgnored == ~DidCall(Call("TypeError", 0, 0, "card-dropped"))

\* C19: a page-mode wheel gesture with a current card kills the current
\* window on deltaY > 0 if it is killable; otherwise pans to the card on the
\* left on deltaX < 0 if there is one; otherwise pans to the card on the
\* right on deltaX > 0 if there is one; it never does two of these, never
\* kills a window that is not killable and never pans outside 0 .. n-1; any
\* other wheel event kills and pans nothing.
C19_WheelOneAction ==
  listening =>
    \A mode \in {"DOM_DELTA_PAGE", "DOM_DELTA_PIXEL", "DOM_DELTA_LINE"},
       dx \in (0 - 1) .. 1, dy \in (0 - 1) .. 1, killable \in BOOLEAN :
      LET r == onWheel(State, WheelEvt(mode, dx, dy), QK(killable))
          kills == {i \in 1 .. Len(r.calls) : r.calls[i].op = "kill"}
          pans == {i \in 1 .. Len(r.calls) : r.calls[i].op = "panToApp"}
          n == Len(stack)
          hasCurrent == currentCard # NullCard /\ currentCard # UndefCard
          ci == IndexOf(stack, currentCard.app)
          PansTo(k) ==
            /\ kills = {}
            /\ Cardinality(pans) = 1
            /\ \A i \in pans : r.calls[i] = Call("panToApp", stack[k + 1], k, "")
            /\ 0 <= k /\ k <= n - 1
          Nothing == kills = {} /\ pans = {}
      IN /\ Cardinality(kills) + Cardinality(pans) <= 1
         /\ kills # {} => killable
         /\ IF mode = "DOM_DELTA_PAGE" /\ hasCurrent
            THEN IF dy > 0 /\ killable
                 THEN /\ pans = {}
                      /\ \A i \in kills : r.calls[i] = Call("kill", currentCard.app, 0, "")
                      /\ kills # {}
                 ELSE IF dx < 0 THEN (IF ci >= 1 THEN PansTo(ci - 1) ELSE Nothing)
                 ELSE IF dx > 0 THEN (IF ci < n - 1 THEN PansTo(ci + 1) ELSE Nothing)
                 ELSE Nothing
            ELSE Nothing

\* a wheel gesture to the right moved the strip from the first card to the
\* second
C19_Witness ==
  /\ Did("wheel")
  /\ Len(stack) = 2
  /\ DidCall(Call("panToApp", stack[2], 1, ""))
  /\ ~Did("kill")

\* C20: panToApp(app, immediately) aims at the index of app in the stack, or
\* at the last position when app is not there; with the strip already at
\* (cardWidth + 25) * index it resolves at once and scrolls nothing;
\* otherwise it calls scrollTo once, to that offset, with behavior 'auto' if
\* immediately and 'smooth' if not, and resolves from the 200 timer, whatever
\* the strip has done by then.
C20_PanToApp ==
  listening =>
    \A app \in Range(smStack) \cup {Home, NoWin}, immediately \in BOOLEAN :
      LET r == panToApp(State, app, immediately, "resolve", NoWin, QK(FALSE))
          n == Len(stack)
          idx == IF app \in Range(stack) THEN IndexOf(stack, app) ELSE n - 1
          desired == (cardWidth + 25) * idx
          timer == Cont("pan", NoWin, "resolve")
          resolved == Call("resolve", 0, 0, "")
      IN IF desired = scrollLeft
         THEN /\ r.calls = <<Call("panToApp", app, idx, ""), resolved>>
              /\ r.pending = pending
              /\ r.scrollLeft = scrollLeft
         ELSE /\ r.calls = <<Call("panToApp", app, idx, ""),
                             Call("scrollTo", desired, 0,
                                  IF immediately THEN "auto" ELSE "smooth"),
                             Call("setTimeout", 200, 0, "")>>
              /\ r.pending = pending (+) SetToBag({timer})
              /\ \A x \in {0, r.scrollLeft, desired} :
                   afterPan(Resume([r EXCEPT !.scrollLeft = x, !.calls = <<>>],
                                   timer),
                            timer.then, timer.a, QK(FALSE)).calls = <<resolved>>

\* show() panned a strip of two or more cards to the current window, the
\* last of the stack, without animation
C20_Witness ==
  /\ Len(stack) >= 2
  /\ Published("taskmanager-activated")
  /\ DidCall(Call("scrollTo", (cardWidth + 25) * (Len(stack) - 1), 0, "auto"))
  /\ Did("setTimeout")

HideBegan == Published("cardviewclosed")
Opens == {i \in 1 .. Len(calls) : calls[i].op = "open"}

\* C21 as claimed: a hide() that begins a transition opens its target exactly
\* once, the explicit argument if there is one, with 'home-from-cardview'
\* for the home surface and else the given transition or 'from-cardview',
\* and its 'cardviewclosed' carries the index of that target in the
\* provider's stack of that moment, or none if it is not there.
C21_HideOpensTarget ==
  HideBegan =>
    /\ Cardinality(Opens) = 1
    /\ \A i \in Opens :
         LET target == calls[i].a
             h == CHOOSE j \in 1 .. Len(calls) : calls[j].op = "hide"
         IN /\ calls[h].a # NoWin => target = calls[h].a
            /\ target # NoWin
            /\ calls[i].t = IF IsHomescreen(target) THEN "home-from-cardview"
                            ELSE IF calls[h].t # "" THEN calls[h].t
                            ELSE "from-cardview"
            /\ DidCall(Call("publish", IndexOf(smStack, target), 0,
                            "cardviewclosed"))

\* C23: the input listeners are attached exactly while the switcher is active
\* with no transition in flight, and the continuation of show() that
\* attaches them runs only when they are not attached.
C23_ListenersIffShownIdle ==
  /\ [](listening <=> (active /\ ~isTransitioning))
  /\ [][Activated' => ~listening /\ listening']_vars

\* a hide transition has begun on a shown switcher: the listeners are gone
\* while it is still active
C23_Witness ==
  /\ HideBegan
  /\ ~listening
  /\ active
  /\ isTransitioning
  /\ stack # <<>>

\* C24 as claimed: whenever the switcher is not active and no transition is
\* in flight the screen has no 'cards-view' marker, and 'cardviewshown' is
\* published only while the switcher is active.
C24_NoStaleCardsView ==
  /\ (~active /\ ~isTransitioning) => ~cardsView
  /\ Published("cardviewshown") => active

\* C25 as claimed: after every pass made while the switcher is shown, every
\* card of the stack has set-size n, position-in-set equal to its place in
\* the stack, and is hidden exactly when it is not the current card.
C25_AriaAfterPass ==
  (PassCompleted /\ active /\ ~Did("TypeError")) =>
    \A i \in 1 .. Len(stack) :
      LET card == appToCardMap[stack[i]]
      IN /\ card.id \in DOMAIN aria
         /\ aria[card.id].setsize = Len(stack)
         /\ aria[card.id].posinset = i
         /\ aria[card.id].hidden = (card # currentCard)

\* C27: a shown, idle switcher with an empty stack carries the 'empty'
\* marker, and a pass that empties the stack of a shown switcher is followed
\* by hide() in the same handler.
C27_EmptyIsMarkedOrHidden ==
  /\ []((active /\ ~isTransitioning /\ stack = <<>>) => "empty" \in classes)
  /\ [][(listening /\ PassCompleted' /\ stack # <<>> /\ stack' = <<>>) =>
          /\ HideBegan'
          /\ isTransitioning'
          /\ ~listening']_vars

\* the last window terminated while the switcher was shown, and hide() began
C27_Witness ==
  /\ PassCompleted
  /\ Did("removeChild")
  /\ stack = <<>>
  /\ HideBegan
  /\ active
  /\ isTransitioning

\* C22 as claimed: every card in the collection has its screenshot-disabled
\* flag equal to the negation of the latest value of the preference.
C22_CardsFollowPreference ==
  \A el \in DOMAIN elementToCardMap :
    elementToCardMap[el].noShots = disableScreenshots

\* C26 as claimed: when the scroll offset is the one panToApp() requests for
\* the window at position i, getCurrentIndex() is i, and after the 'scroll'
\* handler ran there the current card is the card of that window.
C26_PanAndIndexAgree ==
  (listening /\ stack # <<>>) =>
    \A i \in 0 .. Len(stack) - 1 :
      scrollLeft = (cardWidth + CARD_GUTTER) * i =>
        /\ getCurrentIndex(State) = i
        /\ Did("scroll") => currentCard = appToCardMap[stack[i + 1]]

====
